---- MODULE Spec2Model ----
(***************************************************************************)
(* Model of organize_photos.py: the exiftool probe (get_date_taken), the   *)
(* per-file loop of organize_dng_files (glob, is_file, probe, mkdir, move) *)
(* and the startup checks of the __main__ block, over a filesystem that is *)
(* a map from paths below source_dir to entries.                           *)
(***************************************************************************)
EXTENDS Integers, Sequences, FiniteSets, TLC

\* ------------------------------------------------------------------ bounds
NumFiles == 2       \* root-level IMG_<i>.DNG candidates
NumDates == 2       \* distinct capture dates exiftool may report
MaxObstacles == 2   \* obstacles in source_dir before the first run
MaxOut == 4         \* tokens of exiftool standard output (reader spec)

VARIABLES
    fs,            \* path below source_dir -> entry
    fs0,           \* the filesystem before the first run (history)
    shot,          \* candidate number -> day its EXIF data records, 0 = none
    toolInstalled, \* exiftool is on the PATH
    srcExists,     \* os.path.exists(source_dir)
    pc,            \* position in the program
    todo,          \* entries glob("*.DNG") matched and the loop has not visited
    file_path,     \* file_path of the current iteration (<<>> before the first)
    date_str,      \* date_str of the current iteration
    run,           \* number of the current invocation
    events,        \* what the current run did: "probe", "mkdir", "move"
    created,       \* directories the current run created, in order (history)
    probe,         \* reader spec: the exiftool outcome handed to get_date_taken
    result         \* reader spec: what get_date_taken did with it

vars == <<fs, fs0, shot, toolInstalled, srcExists, pc, todo, file_path,
          date_str, run, events, created, probe, result>>

\* ------------------------------------------------------------------- names
\* A file name is a stem (a number) and an extension; a path is a sequence of
\* names relative to source_dir.
FileName(i) == <<i, "DNG">>                       \* IMG_<i>.DNG
\* The directory named by the date string d: its digits, YYYYMMDD, and no
\* extension.
DirName(d) == <<d[1] * 10000 + d[2] * 100 + d[3], "">>
NotesTxt == <<0, "txt">>                          \* notes.txt
LowerDng == <<0, "dng">>                          \* scan.dng
Ext(n) == n[2]

Files == {FileName(i) : i \in 1..NumFiles}

\* The timestamp exiftool reports for file i when it was taken on day d: the
\* six fields of "%Y:%m:%d %H:%M:%S".  Two files of one day differ in the hour.
Stamp(d, i) == <<2023, 5, 13 + d, 10 + i, 22, 0>>

\* datetime.strftime("%Y-%m-%d"): the date fields, the time of day dropped.
Strftime(ts) == <<ts[1], ts[2], ts[3]>>

DateStrs == {Strftime(Stamp(d, 1)) : d \in 1..NumDates}

Paths ==
    {<<n>> : n \in Files \cup {NotesTxt, LowerDng}}
    \cup {<<DirName(s)>> : s \in DateStrs}
    \cup {<<DirName(s), f>> : s \in DateStrs, f \in Files}
    \cup {<<DirName(s), f, f>> : s \in DateStrs, f \in Files}

\* --------------------------------------------------------------- filesystem
NoEntry == [kind |-> "none", id |-> <<>>]
DirEntry(p) == [kind |-> "dir", id |-> p]
\* A regular file; id is the path it had before the first run (its identity).
FileEntry(p) == [kind |-> "file", id |-> p]

Exists(f, p) == f[p].kind # "none"
IsDir(f, p) == f[p].kind = "dir"
IsFile(f, p) == f[p].kind = "file"

\* fnmatch of a name against "*.DNG" (case-sensitive on POSIX).
MatchesPattern(n) == Ext(n) = "DNG"

\* Path.glob("*.DNG"): the immediate children of source_dir whose name matches.
Glob(f) == {p \in Paths : Len(p) = 1 /\ Exists(f, p) /\ MatchesPattern(p[1])}

\* ---------------------------------------------------------- metadata reader
\* exiftool's standard output is a sequence of tokens: label text, the ": "
\* separator, whitespace (blanks, the final newline) and a printed timestamp
\* (six numeric fields as "%Y:%m:%d %H:%M:%S" prints them).
Txt == [t |-> "txt", v |-> <<>>]
Sep == [t |-> "sep", v |-> <<>>]
Ws == [t |-> "ws", v |-> <<>>]
Ts(fields) == [t |-> "ts", v |-> fields]

None == <<>>

\* What subprocess.run gave: whether the process could be started at all, its
\* return code and its standard output.
ToolOutcome(started, rc, stdout) ==
    [started |-> started, returncode |-> rc, stdout |-> stdout]
NotStarted == ToolOutcome(FALSE, 0, <<>>)
NoField == ToolOutcome(TRUE, 0, <<>>)
Printed(ts) == ToolOutcome(TRUE, 0, <<Txt, Ws, Sep, Ts(ts), Ws>>)

\* Index of the first ": " of s, 0 when there is none.
FirstSep(s) ==
    IF \E k \in 1..Len(s) : s[k] = Sep
    THEN CHOOSE k \in 1..Len(s) : s[k] = Sep /\ \A j \in 1..(k - 1) : s[j] # Sep
    ELSE 0

\* str.split(': '): the pieces between separators, at least one piece.
RECURSIVE Split(_)
Split(s) ==
    LET k == FirstSep(s)
    IN  IF k = 0 THEN <<s>>
        ELSE <<SubSeq(s, 1, k - 1)>> \o Split(SubSeq(s, k + 1, Len(s)))

\* str.strip(): leading and trailing whitespace removed.
RECURSIVE Strip(_)
Strip(s) ==
    IF s = <<>> THEN s
    ELSE IF Head(s) = Ws THEN Strip(Tail(s))
    ELSE IF s[Len(s)] = Ws THEN Strip(SubSeq(s, 1, Len(s) - 1))
    ELSE s

DaysInMonth(y, m) ==
    IF m \in {4, 6, 9, 11} THEN 30
    ELSE IF m # 2 THEN 31
    ELSE IF (y % 4 = 0 /\ y % 100 # 0) \/ y % 400 = 0 THEN 29 ELSE 28

\* The field ranges datetime.strptime accepts for "%Y:%m:%d %H:%M:%S".
ValidStamp(f) ==
    /\ f[1] \in 1..9999
    /\ f[2] \in 1..12
    /\ f[3] \in 1..DaysInMonth(f[1], f[2])
    /\ f[4] \in 0..23
    /\ f[5] \in 0..59
    /\ f[6] \in 0..59

\* datetime.strptime(date_str, '%Y:%m:%d %H:%M:%S'): the text must be exactly
\* one well-formed timestamp, otherwise ValueError.
Strptime(text) ==
    IF Len(text) = 1 /\ text[1].t = "ts" /\ ValidStamp(text[1].v)
    THEN [exc |-> "", value |-> text[1].v]
    ELSE [exc |-> "ValueError", value |-> None]

\* The try block of get_date_taken: what it returns or which exception it
\* raises.  Falling out of the if is exc = "" with value None.
TryBody(o) ==
    IF ~o.started THEN [exc |-> "FileNotFoundError", value |-> None]
    ELSE IF o.returncode = 0 /\ o.stdout # <<>>
    THEN LET parts == Split(o.stdout)
         IN  IF Len(parts) < 2 THEN [exc |-> "IndexError", value |-> None]
             ELSE Strptime(Strip(parts[2]))
    ELSE [exc |-> "", value |-> None]

\* Mutant of Caught: `except ValueError` in place of `except Exception`.
CaughtValueErrorOnly(exc) == exc = "ValueError"

\* The exceptions `except Exception` catches.
Caught(exc) == exc \in {"FileNotFoundError", "IndexError", "ValueError"}

\* get_date_taken: the try block, every Exception turned into return None.
get_date_taken(o) ==
    LET r == TryBody(o)
    IN  IF r.exc # "" /\ Caught(r.exc) THEN [exc |-> "", value |-> None] ELSE r

\* ------------------------------------------------------ filesystem primitives
\* Mutant of Mkdir: mkdir() without exist_ok=True raises on any existing entry.
MkdirNoExistOk(f, p) ==
    IF ~Exists(f, p) THEN [exc |-> "", fs |-> [f EXCEPT ![p] = DirEntry(p)]]
    ELSE [exc |-> "FileExistsError", fs |-> f]

\* Path.mkdir(exist_ok=True) of a child of source_dir: creates it when absent,
\* does nothing when a directory is there, raises FileExistsError when
\* anything else occupies the name.
Mkdir(f, p) ==
    IF ~Exists(f, p) THEN [exc |-> "", fs |-> [f EXCEPT ![p] = DirEntry(p)]]
    ELSE IF IsDir(f, p) THEN [exc |-> "", fs |-> f]
    ELSE [exc |-> "FileExistsError", fs |-> f]

\* Mutant of Move: the destination is replaced whatever it is (a directory at
\* dst is removed first), as os.replace after a cleanup would.
MoveReplacingDir(f, src, dst) ==
    [exc |-> "", fs |-> [f EXCEPT ![dst] = f[src], ![src] = NoEntry]]

\* Mutant of Move: an existing destination is refused, never overwritten.
MoveNoClobber(f, src, dst) ==
    IF Exists(f, dst) THEN [exc |-> "shutil.Error", fs |-> f]
    ELSE [exc |-> "", fs |-> [f EXCEPT ![dst] = f[src], ![src] = NoEntry]]

\* Mutant of Move: the file is copied and the source is not unlinked.
MoveCopyOnly(f, src, dst) ==
    LET real_dst == IF IsDir(f, dst) THEN dst \o <<src[Len(src)]>> ELSE dst
    IN  IF IsDir(f, dst) /\ Exists(f, real_dst)
        THEN [exc |-> "shutil.Error", fs |-> f]
        ELSE [exc |-> "", fs |-> [f EXCEPT ![real_dst] = f[src]]]

\* shutil.move(src, dst) of a regular file: a directory at dst takes the file
\* inside it under its base name and refuses when that name is taken; any
\* other dst is renamed onto, replacing a file that is there.
Move(f, src, dst) ==
    LET real_dst == IF IsDir(f, dst) THEN dst \o <<src[Len(src)]>> ELSE dst
    IN  IF IsDir(f, dst) /\ Exists(f, real_dst)
        THEN [exc |-> "shutil.Error", fs |-> f]
        ELSE [exc |-> "",
              fs |-> [f EXCEPT ![real_dst] = f[src], ![src] = NoEntry]]

\* ------------------------------------------------------------------ organizer
\* What exiftool answers for candidate i in the organizer's runs: no
\* DateTimeOriginal field (d = 0), or the capture time of day d.
Answer(i, d) == IF d = 0 THEN NoField ELSE Printed(Stamp(d, i))

\* What subprocess.run(['exiftool', ...]) gives for the file named n.
ToolRun(n) ==
    IF toolInstalled THEN Answer(n[1], shot[n[1]]) ELSE NotStarted

\* date_taken of a candidate path (None when unavailable).
DateTaken(p) == get_date_taken(ToolRun(p[1])).value

TargetDir(d) == <<DirName(d)>>
TargetPath(d, p) == TargetDir(d) \o <<p[Len(p)]>>

\* One whole iteration of the for loop on filesystem f: the filesystem it
\* leaves and the exception that escapes it ("" when none).
ProcessFile(f, p) ==
    IF ~IsFile(f, p) \/ DateTaken(p) = None THEN [exc |-> "", fs |-> f]
    ELSE LET d == Strftime(DateTaken(p))
             made == Mkdir(f, TargetDir(d))
         IN  IF made.exc # "" THEN made
             ELSE Move(made.fs, p, TargetPath(d, p))

\* The loop over the candidates in the order `order`: an exception that
\* escapes an iteration ends the loop.
RECURSIVE OrganizeInOrder(_, _)
OrganizeInOrder(f, order) ==
    IF order = <<>> THEN [exc |-> "", fs |-> f]
    ELSE LET r == ProcessFile(f, Head(order))
         IN  IF r.exc # "" THEN r ELSE OrganizeInOrder(r.fs, Tail(order))

\* ----------------------------------------------------------- initial states
\* An obstacle is an entry that is there before the first run: a directory
\* that has a candidate's name in place of the candidate, or an entry at or
\* below source_dir/<date> (its ancestors are directories).  The days are
\* interchangeable, so the obstacles are put on the first day's directory.
FirstDay == DirName(Strftime(Stamp(1, 1)))

Obstacles ==
    {[k |-> "dir", p |-> <<n>>] : n \in Files}
    \cup {[k |-> k, p |-> <<FirstDay>>] : k \in {"file", "dir"}}
    \cup {[k |-> k, p |-> <<FirstDay, n>>] : k \in {"file", "dir"}, n \in Files}
    \cup {[k |-> "file", p |-> <<FirstDay, n, n>>] : n \in Files}

IsProperPrefix(p, q) == Len(p) < Len(q) /\ SubSeq(q, 1, Len(p)) = p

Consistent(O) ==
    \A a, b \in O :
        /\ a.p = b.p => a = b
        /\ IsProperPrefix(a.p, b.p) => a.k = "dir"

RECURSIVE SetsUpTo(_, _)
SetsUpTo(S, k) ==
    IF k = 0 THEN {{}}
    ELSE LET smaller == SetsUpTo(S, k - 1)
         IN  smaller \cup {T \cup {x} : T \in smaller, x \in S}

\* source_dir with the candidates, two files glob does not match and the
\* obstacles O.
InitialFs(O) ==
    [p \in Paths |->
        IF \E o \in O : o.p = p
        THEN IF (CHOOSE o \in O : o.p = p).k = "file"
             THEN FileEntry(p) ELSE DirEntry(p)
        ELSE IF \E o \in O : IsProperPrefix(p, o.p) THEN DirEntry(p)
        ELSE IF p \in {<<n>> : n \in Files \cup {NotesTxt, LowerDng}}
        THEN FileEntry(p)
        ELSE NoEntry]

EmptyFs == [p \in Paths |-> NoEntry]

Init ==
    /\ toolInstalled \in BOOLEAN
    /\ srcExists \in BOOLEAN
    /\ IF srcExists
       THEN \E O \in SetsUpTo(Obstacles, MaxObstacles) :
                Consistent(O) /\ fs = InitialFs(O)
       ELSE fs = EmptyFs
    /\ fs0 = fs
    /\ shot \in [1..NumFiles -> 0..NumDates]
    /\ pc = "main"
    /\ todo = {}
    /\ file_path = <<>>
    /\ date_str = <<>>
    /\ run = 1
    /\ events = {}
    /\ created = <<>>
    /\ probe = NotStarted
    /\ result = [exc |-> "", value |-> None]

\* ------------------------------------------------------------------- actions
\* Mutant of CheckTool: the result of check_exiftool() is ignored.
CheckToolIgnored ==
    /\ pc = "main"
    /\ pc' = "check_dir"
    /\ UNCHANGED <<fs, fs0, shot, toolInstalled, srcExists, todo, file_path,
                   date_str, run, events, created, probe, result>>

\* if not check_exiftool(): exit(1)
CheckTool ==
    /\ pc = "main"
    /\ pc' = IF toolInstalled THEN "check_dir" ELSE "exit1"
    /\ UNCHANGED <<fs, fs0, shot, toolInstalled, srcExists, todo, file_path,
                   date_str, run, events, created, probe, result>>

\* if not os.path.exists(args.source_dir): exit(1)
CheckDir ==
    /\ pc = "check_dir"
    /\ pc' = IF srcExists THEN "glob" ELSE "exit1"
    /\ UNCHANGED <<fs, fs0, shot, toolInstalled, srcExists, todo, file_path,
                   date_str, run, events, created, probe, result>>

\* organize_dng_files is entered: source_path.glob("*.DNG") lists the matches.
StartGlob ==
    /\ pc = "glob"
    /\ todo' = Glob(fs)
    /\ pc' = "loop"
    /\ UNCHANGED <<fs, fs0, shot, toolInstalled, srcExists, file_path,
                   date_str, run, events, created, probe, result>>

\* The next match, in whatever order the filesystem enumerates, is no file.
SkipNotFile ==
    /\ pc = "loop"
    /\ \E p \in todo :
        /\ ~IsFile(fs, p)
        /\ todo' = todo \ {p}
    /\ UNCHANGED <<fs, fs0, shot, toolInstalled, srcExists, pc, file_path,
                   date_str, run, events, created, probe, result>>

\* The next match is a file and get_date_taken returns None: skipped.
SkipNoDate ==
    /\ pc = "loop"
    /\ \E p \in todo :
        /\ IsFile(fs, p)
        /\ DateTaken(p) = None
        /\ todo' = todo \ {p}
    /\ events' = events \cup {"probe"}
    /\ UNCHANGED <<fs, fs0, shot, toolInstalled, srcExists, pc, file_path,
                   date_str, run, created, probe, result>>

\* The next match is a file with a capture time: date_str is formatted and
\* target_dir.mkdir(exist_ok=True) runs; an exception ends organize_dng_files.
MakeDir ==
    /\ pc = "loop"
    /\ \E p \in todo :
        /\ IsFile(fs, p)
        /\ DateTaken(p) # None
        /\ todo' = todo \ {p}
        /\ file_path' = p
        /\ date_str' = Strftime(DateTaken(p))
        /\ LET made == Mkdir(fs, TargetDir(Strftime(DateTaken(p))))
           IN  /\ fs' = made.fs
               /\ pc' = IF made.exc = "" THEN "move" ELSE "crashed"
               /\ created' = IF made.fs # fs
                             THEN Append(created, TargetDir(Strftime(DateTaken(p))))
                             ELSE created
    /\ events' = events \cup {"probe", "mkdir"}
    /\ UNCHANGED <<fs0, shot, toolInstalled, srcExists, run, probe, result>>

\* shutil.move(file_path, target_path); an exception ends organize_dng_files.
MoveFile ==
    /\ pc = "move"
    /\ LET moved == Move(fs, file_path, TargetPath(date_str, file_path))
       IN  /\ fs' = moved.fs
           /\ pc' = IF moved.exc = "" THEN "loop" ELSE "crashed"
    /\ events' = events \cup {"move"}
    /\ UNCHANGED <<fs0, shot, toolInstalled, srcExists, todo, file_path,
                   date_str, run, created, probe, result>>

\* The for loop is exhausted: organize_dng_files returns, exit status 0.
Finish ==
    /\ pc = "loop"
    /\ todo = {}
    /\ pc' = "done"
    /\ UNCHANGED <<fs, fs0, shot, toolInstalled, srcExists, todo, file_path,
                   date_str, run, events, created, probe, result>>

\* The program is invoked a second time on the same source_dir.
RunAgain ==
    /\ pc \in {"done", "crashed"}
    /\ run = 1
    /\ run' = run + 1
    /\ pc' = "main"
    /\ todo' = {}
    /\ file_path' = <<>>
    /\ date_str' = <<>>
    /\ events' = {}
    /\ created' = <<>>
    /\ UNCHANGED <<fs, fs0, shot, toolInstalled, srcExists, probe, result>>

Next ==
    \/ CheckTool
    \/ CheckDir
    \/ StartGlob
    \/ SkipNotFile
    \/ SkipNoDate
    \/ MakeDir
    \/ MoveFile
    \/ Finish
    \/ RunAgain

Spec == Init /\ [][Next]_vars

\* ------------------------------------------------- the metadata reader alone
\* get_date_taken applied to whatever the subprocess may have given.
Tokens ==
    {Txt, Sep, Ws, Ts(Stamp(1, 1)),
     Ts(<<2023, 13, 14, 10, 22, 0>>),    \* month 13
     Ts(<<2023, 2, 30, 10, 22, 0>>),     \* 30 February
     Ts(<<2023, 5, 14, 24, 0, 0>>)}      \* hour 24

RECURSIVE SeqsUpTo(_, _)
SeqsUpTo(S, n) ==
    IF n = 0 THEN {<<>>}
    ELSE LET shorter == SeqsUpTo(S, n - 1)
         IN  shorter \cup {Append(q, x) : q \in shorter, x \in S}

ToolOutcomes ==
    {ToolOutcome(st, rc, out) :
        st \in BOOLEAN, rc \in {0, 1}, out \in SeqsUpTo(Tokens, MaxOut)}

InitReader ==
    /\ probe \in ToolOutcomes
    /\ result = [exc |-> "", value |-> None]
    /\ pc = "call"
    /\ fs = EmptyFs
    /\ fs0 = EmptyFs
    /\ shot = [i \in 1..NumFiles |-> 0]
    /\ toolInstalled = probe.started
    /\ srcExists = TRUE
    /\ todo = {}
    /\ file_path = <<>>
    /\ date_str = <<>>
    /\ run = 1
    /\ events = {}
    /\ created = <<>>

\* date_taken = get_date_taken(file_path): the call returns or raises.
CallReader ==
    /\ pc = "call"
    /\ result' = get_date_taken(probe)
    /\ pc' = IF get_date_taken(probe).exc = "" THEN "returned" ELSE "raised"
    /\ UNCHANGED <<fs, fs0, shot, toolInstalled, srcExists, todo, file_path, date_str,
                   run, events, created, probe>>

NextReader == CallReader

SpecReader == InitReader /\ [][NextReader]_vars

\* ===================================================================== claims
\* Vocabulary of the claims, stated from the inputs (the candidates of the
\* initial filesystem and the day each one's metadata records).
RunEnded == pc \in {"done", "crashed"}
Home(i) == <<FileName(i)>>
IsCandidate(i) == IsFile(fs0, Home(i))
Available(i) == shot[i] # 0
\* The directory name YYYY-MM-DD of day d.
DateDir(d) == <<20230513 + d, "">>
Organized(i) == <<DateDir(shot[i]), FileName(i)>>
Nested(i) == <<DateDir(shot[i]), FileName(i), FileName(i)>>
\* The paths at which candidate i's file is found.
Locations(i) == {p \in Paths : fs[p] = FileEntry(Home(i))}
Relocated(i) == IsCandidate(i) /\ ~Exists(fs, Home(i))

\* C1: when a run has ended, every candidate whose capture time was read is at
\* source_dir/YYYY-MM-DD/<base name> for its date and gone from its original
\* path, whatever happened to the other candidates.
C1_AllRelocated ==
    RunEnded =>
        \A i \in 1..NumFiles :
            (IsCandidate(i) /\ Available(i)) =>
                /\ fs[Organized(i)] = FileEntry(Home(i))
                /\ ~Exists(fs, Home(i))

\* An entry the run may move: a root-level regular file matching *.DNG whose
\* capture time is available.
Movable(p) ==
    /\ Len(p) = 1
    /\ p[1][2] = "DNG"
    /\ IsFile(fs0, p)
    /\ \E i \in 1..NumFiles : p = Home(i) /\ Available(i)

OnlyMovableMoved ==
    \A p \in Paths : (IsFile(fs, p) /\ fs[p].id # p) => Movable(fs[p].id)

CreatedDirsStay == \A k \in 1..Len(created) : IsDir(fs, created[k])

\* C2 as claimed: only movable entries are moved, and every other entry
\* (skipped candidates, files of other extensions, directories, the date
\* directories the run created, files inside directories) stays at its path.
C2_OthersStay ==
    /\ OnlyMovableMoved
    /\ CreatedDirsStay
    /\ \A p \in Paths : (Exists(fs0, p) /\ ~Movable(p)) => fs[p] = fs0[p]

\* C2 as amended: the same, except that a regular file that was at
\* source_dir/YYYY-MM-DD/<base name> of a moved candidate is replaced by it.
C2_OthersStayUnlessOverwritten ==
    /\ OnlyMovableMoved
    /\ CreatedDirsStay
    /\ \A p \in Paths :
        (Exists(fs0, p) /\ ~Movable(p)) =>
            \/ fs[p] = fs0[p]
            \/ /\ IsFile(fs0, p)
               /\ \E i \in 1..NumFiles :
                    /\ IsCandidate(i) /\ Available(i)
                    /\ p = Organized(i)
                    /\ fs[p] = FileEntry(Home(i))

\* A finished run that moved one candidate, skipped another for lack of a
\* capture time, and created a date directory.
C2_Witness ==
    /\ pc = "done"
    /\ created # <<>>
    /\ \E i, j \in 1..NumFiles :
        /\ IsCandidate(i) /\ ~Available(i) /\ fs[Home(i)] = FileEntry(Home(i))
        /\ IsCandidate(j) /\ Available(j) /\ fs[Organized(j)] = FileEntry(Home(j))
    /\ fs[<<NotesTxt>>] = FileEntry(<<NotesTxt>>)

\* C3: a failing mkdir or move of one candidate never ends the run: no
\* exception escapes organize_dng_files and every match is visited.
C3_FailuresContained == pc # "crashed" /\ (RunEnded => todo = {})

\* The value get_date_taken is claimed to return for outcome o: the timestamp
\* v when the tool ran, exited 0 and printed, after the first ": " and up to
\* the next one, exactly one well-formed timestamp v between whitespace;
\* None otherwise.
Yields(o, v) ==
    /\ o.started
    /\ o.returncode = 0
    /\ \E k, m \in 1..Len(o.stdout), e \in 2..(Len(o.stdout) + 1) :
        /\ k < m /\ m < e
        /\ o.stdout[k].t = "sep"
        /\ \A j \in 1..(k - 1) : o.stdout[j].t # "sep"
        /\ e = Len(o.stdout) + 1 \/ o.stdout[e].t = "sep"
        /\ o.stdout[m] = Ts(v)
        /\ v[1] \in 1..9999 /\ v[2] \in 1..12
        /\ v[3] \in 1..DaysInMonth(v[1], v[2])
        /\ v[4] \in 0..23 /\ v[5] \in 0..59 /\ v[6] \in 0..59
        /\ \A j \in (k + 1)..(e - 1) : j # m => o.stdout[j].t = "ws"

\* C4: get_date_taken never raises; it returns the timestamp exactly when the
\* tool started, exited 0 and the value after the separator parses, and None
\* in every other case.
C4_ReaderTotal ==
    pc \in {"returned", "raised"} =>
        /\ pc = "returned"
        /\ result.exc = ""
        /\ \/ result.value = None /\ ~\E t \in Tokens : t.t = "ts" /\ Yields(probe, t.v)
           \/ result.value # None /\ Yields(probe, result.value)

\* The tool exited 0 and printed text without a separator: the IndexError of
\* the split became None.
C4_Witness ==
    /\ pc = "returned"
    /\ probe.started /\ probe.returncode = 0
    /\ Len(probe.stdout) = MaxOut
    /\ \A k \in 1..Len(probe.stdout) : probe.stdout[k] # Sep
    /\ result.value = None

\* C5: exit status 1 without entering organize_dng_files when the tool or
\* source_dir is missing; whatever a run probes, creates or moves, both
\* startup checks have passed, the tool check first.
C5_ChecksFirst ==
    /\ (~toolInstalled \/ ~srcExists) =>
            /\ pc \in {"main", "check_dir", "exit1"}
            /\ events = {} /\ created = <<>> /\ fs = fs0
    /\ pc = "exit1" => (~toolInstalled \/ ~srcExists)
    /\ pc = "check_dir" => toolInstalled
    /\ (events # {} \/ created # <<>> \/ fs # fs0) => (toolInstalled /\ srcExists)

\* The tool is missing although source_dir holds a file with a capture time.
C5_Witness ==
    /\ pc = "exit1"
    /\ ~toolInstalled /\ srcExists
    /\ \E i \in 1..NumFiles : IsCandidate(i) /\ Available(i)

\* C6: the second of two successive runs changes nothing in the filesystem.
C6_SecondRunIdle == [][run = 2 => fs' = fs]_vars

\* C7 as claimed: a relocation onto an existing entry of the same base name
\* leaves the candidate's content at that destination path.
C7_OverwritesEntry ==
    [][(/\ pc = "move"
        /\ Exists(fs, TargetPath(date_str, file_path))
        /\ ~Exists(fs', file_path))
       => fs'[TargetPath(date_str, file_path)] = fs[file_path]]_vars

\* C7 as amended: when the existing entry is a regular file, the move
\* succeeds, the destination holds the candidate's content, the previous
\* content is nowhere, and the original path is empty.
C7_OverwritesFile ==
    [][(pc = "move" /\ IsFile(fs, TargetPath(date_str, file_path)))
       => /\ pc' = "loop"
          /\ fs'[TargetPath(date_str, file_path)] = fs[file_path]
          /\ TargetPath(date_str, file_path)[2] = file_path[1]
          /\ ~Exists(fs', file_path)
          /\ \A q \in Paths : fs'[q] # fs[TargetPath(date_str, file_path)]]_vars

\* A candidate stands where a different file stood before the first run.
C7_Witness ==
    \E i \in 1..NumFiles :
        /\ IsCandidate(i) /\ Available(i)
        /\ IsFile(fs0, Organized(i))
        /\ fs[Organized(i)] = FileEntry(Home(i))

\* C8 as claimed: the candidate of an existing date directory is moved into
\* it, so when a run has ended any two candidates of one capture date are in
\* the one directory of that date.
C8_SameDateSameDir ==
    RunEnded =>
        \A i, j \in 1..NumFiles :
            (/\ IsCandidate(i) /\ IsCandidate(j)
             /\ Available(i) /\ shot[i] = shot[j]
             /\ IsDir(fs, <<DateDir(shot[i])>>))
            => \E p, q \in Paths :
                /\ Len(p) = 2 /\ p[1] = DateDir(shot[i]) /\ p \in Locations(i)
                /\ Len(q) = 2 /\ q[1] = DateDir(shot[i]) /\ q \in Locations(j)

\* C8 as amended: mkdir on an existing directory raises nothing and creates
\* nothing; a directory that existed is never created again and no date
\* directory is created twice; every relocated candidate is below the one
\* directory of its own date.
C8_EnsureIdempotent ==
    /\ \A s \in DateStrs :
        IsDir(fs, TargetDir(s)) => Mkdir(fs, TargetDir(s)) = [exc |-> "", fs |-> fs]
    /\ pc = "move" => IsDir(fs, TargetDir(date_str))
    /\ \A a, b \in 1..Len(created) : created[a] = created[b] => a = b
    /\ \A a \in 1..Len(created) :
        /\ ~Exists(fs0, created[a])
        /\ \E i \in 1..NumFiles :
            IsCandidate(i) /\ Available(i) /\ created[a] = <<DateDir(shot[i])>>
    /\ \A i \in 1..NumFiles :
        Relocated(i) =>
            /\ Available(i)
            /\ \A p \in Locations(i) : p[1] = DateDir(shot[i])
            /\ Locations(i) # {}

\* Two candidates of one date both moved into its directory, which was there
\* before the run: nothing had to be created.
C8_Witness ==
    /\ pc = "done"
    /\ created = <<>>
    /\ \E i, j \in 1..NumFiles :
        /\ i # j /\ Available(i) /\ shot[i] = shot[j]
        /\ IsDir(fs0, <<DateDir(shot[i])>>)
        /\ fs[Organized(i)] = FileEntry(Home(i))
        /\ fs[Organized(j)] = FileEntry(Home(j))

\* C9 as claimed: at every moment each candidate is at exactly one place, its
\* original path or source_dir/YYYY-MM-DD/<base name> of its own date, and a
\* candidate without a capture time is at its original path.
C9_OnePlace ==
    \A i \in 1..NumFiles :
        IsCandidate(i) =>
            /\ Cardinality(Locations(i)) = 1
            /\ Locations(i) \subseteq
                {Home(i)} \cup (IF Available(i) THEN {Organized(i)} ELSE {})

\* C9 as amended: the one place may also be
\* source_dir/YYYY-MM-DD/<base name>/<base name>, when a directory of the
\* candidate's base name was in the date directory before the run.
C9_OnePlaceOrNested ==
    \A i \in 1..NumFiles :
        IsCandidate(i) =>
            /\ Cardinality(Locations(i)) = 1
            /\ Locations(i) \subseteq
                {Home(i)}
                \cup (IF Available(i) THEN {Organized(i)} ELSE {})
                \cup (IF Available(i) /\ IsDir(fs0, Organized(i))
                      THEN {Nested(i)} ELSE {})

\* In the middle of a run: one candidate already relocated, the next one's
\* directory ensured and its move pending.
C9_Witness ==
    /\ pc = "move"
    /\ fs[file_path].kind = "file"
    /\ \E j \in 1..NumFiles :
        Available(j) /\ fs[Organized(j)] = FileEntry(Home(j))

RECURSIVE Orders(_)
\* Every order in which the elements of S can be enumerated.
Orders(S) ==
    IF S = {} THEN {<<>>}
    ELSE UNION {{<<x>> \o o : o \in Orders(S \ {x})} : x \in S}

\* C10: the filesystem a first run leaves is the one every enumeration order
\* of the candidates leaves.
C10_OrderIndependent ==
    (RunEnded /\ run = 1) =>
        \A order \in Orders(Glob(fs0)) : OrganizeInOrder(fs0, order).fs = fs

====
